---------------------------- MODULE Spec2Model ----------------------------
(***************************************************************************)
(* Model of the OrderManager of limit_order_book                            *)
(* (include/order.hpp, include/order_manager.hpp, src/order_manager.cpp).   *)
(*                                                                         *)
(* The manager is a flat registry: an unordered_map from order id to Order, *)
(* a lazily rebuilt vector of pointers used for printing, a dirty flag and  *)
(* two statistics counters.                                                *)
(***************************************************************************)
EXTENDS Integers, Sequences, FiniteSets, TLC

(***************************************************************************)
(* Bounds of the model.                                                     *)
(***************************************************************************)
\* cap on total_orders_added_ (a uint64_t in the code, unbounded in practice)
MaxAdds == 3

\* Order(order_id, order_price, order_qty, order_side)
Order(order_id, order_price, order_qty, order_side) ==
    [id |-> order_id, price |-> order_price,
     quantity |-> order_qty, side |-> order_side]

is_buy(order) == order.side = 0
is_sell(order) == order.side = 1

\* Inputs of specification Spec: two ids, and the prices and quantities of
\* the documented scenarios.
Ids == {1, 2}
Prices == {99, 100}
Quantities == {10, 15, 30, 50}
Sides == {0, 1}

\* Orders a caller may pass to add_order: well-formed ones, and per id a few
\* that add_order (which validates nothing) accepts as well: a zero price, a
\* zero quantity, a side that is neither 0 nor 1.
ValidOrders ==
    {Order(i, p, q, s) : i \in Ids, p \in Prices, q \in Quantities, s \in Sides}
EdgeOrders ==
    UNION {{Order(i, 0, 10, 0), Order(i, 100, 0, 1), Order(i, 100, 10, 2)} : i \in Ids}
Orders == ValidOrders \cup EdgeOrders

\* Inputs of specification SpecBook: three ids, two resting orders of
\* quantity 10 and an incoming third order that covers one or both of them.
BookIds == {1, 2, 3}
BookOrders ==
    {Order(i, p, 10, s) : i \in {1, 2}, p \in Prices, s \in Sides}
    \cup {Order(3, p, q, s) : p \in Prices, q \in {15, 30}, s \in Sides}

VARIABLES
    orders_,                  \* std::unordered_map<uint64_t, Order>
    order_ptrs_,              \* std::vector<const Order*>, the snapshot cache
    snapshot_dirty_,          \* bool
    total_orders_added_,      \* uint64_t
    total_orders_cancelled_,  \* uint64_t
    op,                       \* the last call made on the manager: [name, id]
    ret,                      \* what that call returned or printed
    fills,                    \* Fill events emitted so far
    created,                  \* history: the live Orders as given at the submits that
                              \* created them, in submission order
    rt_pre,                   \* history: the book before a submit, kept for the cancel that follows
    submitted,                 \* history: ids and total quantity of a submit-only run
    threads,                  \* each thread inside print_snapshot: [pc, todo, out]
    proc                      \* the process running main: [pc, argv, ...]

vars == <<orders_, order_ptrs_, snapshot_dirty_, total_orders_added_,
          total_orders_cancelled_, op, ret, fills, created, rt_pre, submitted,
          threads, proc>>

EmptyMap == [i \in {} |-> 0]
\* get_order returns a pointer: nullptr, or a pointer to the stored Order
nullptr == {}
ptr_to(order) == {order}
void == "void"
Call(name, id) == [name |-> name, id |-> id]
\* values of the history variables outside their run
NoRoundTrip == [armed |-> FALSE, book |-> EmptyMap]
NotSubmitOnly == [ids |-> {}, qty |-> -1]
\* the history `created` without the order of this id
Forget(seq, order_id) == SelectSeq(seq, LAMBDA o : o.id # order_id)
\* a Fill event as the documentation describes it
Fill(resting, incoming, price, qty) ==
    [resting |-> resting, incoming |-> incoming, price |-> price, qty |-> qty]

(***************************************************************************)
(* Container operations the handlers call.                                  *)
(***************************************************************************)
\* Variants of the container calls, each a slip the handlers could contain;
\* the properties below are checked to tell them from the code's calls.
\* orders_.insert_or_assign(order.id, order): overwrites a live order
try_emplace_assign(m, order) ==
    [map |-> [j \in DOMAIN m \cup {order.id} |->
                IF j = order.id THEN order ELSE m[j]],
     inserted |-> order.id \notin DOMAIN m]
\* orders_.try_emplace(order.id): the mapped Order is value-initialised
try_emplace_default(m, order) ==
    [map |-> IF order.id \in DOMAIN m
             THEN m
             ELSE [j \in DOMAIN m \cup {order.id} |->
                     IF j = order.id THEN Order(0, 0, 0, 0) ELSE m[j]],
     inserted |-> order.id \notin DOMAIN m]
\* orders_.try_emplace(order.quantity, order): keyed by the wrong field
try_emplace_wrong_key(m, order) ==
    [map |-> IF order.quantity \in DOMAIN m
             THEN m
             ELSE [j \in DOMAIN m \cup {order.quantity} |->
                     IF j = order.quantity THEN order ELSE m[j]],
     inserted |-> order.quantity \notin DOMAIN m]
\* orders_.erase(it, orders_.end()): erases the rest of the map as well
erase_to_end(m, order_id) == [j \in {k \in DOMAIN m : k < order_id} |-> m[j]]

\* orders_.try_emplace(order.id, std::move(order)): inserts only if the key
\* is absent; yields the map and the `inserted` flag
try_emplace(m, order) ==
    [map |-> IF order.id \in DOMAIN m
             THEN m
             ELSE [j \in DOMAIN m \cup {order.id} |->
                     IF j = order.id THEN order ELSE m[j]],
     inserted |-> order.id \notin DOMAIN m]

\* orders_.erase(it), it = orders_.find(order_id) # end()
erase(m, order_id) == [j \in DOMAIN m \ {order_id} |-> m[j]]

\* size() and empty()
size == Cardinality(DOMAIN orders_)
empty == DOMAIN orders_ = {}

\* A pointer into orders_ is the id of the node it points to; erasing the
\* node leaves every pointer to it dangling.
Ptr(order_id) == [id |-> order_id, dangling |-> FALSE]
invalidate(ptrs, order_id) ==
    [k \in DOMAIN ptrs |->
        IF ptrs[k].id = order_id THEN [ptrs[k] EXCEPT !.dangling = TRUE]
                                 ELSE ptrs[k]]

\* all orders in which a range-for over the unordered_map may visit its nodes
IterationOrders(S) ==
    {s \in [1..Cardinality(S) -> S] :
        \A i, j \in 1..Cardinality(S) : i # j => s[i] # s[j]}

\* the threads that may call print_snapshot at the same time
Threads == {1, 2}
\* a thread that is not inside print_snapshot, with what it wrote last
IdleThread == [pc |-> "idle", todo |-> <<>>, out |-> [total |-> 0, rows |-> <<>>]]
\* the process before main runs
NotStarted ==
    [pc |-> "start", argv |-> <<>>, count |-> 0, i |-> 0,
     exit_code |-> -1, caught |-> FALSE]
\* a call made by one caller, outside main and with no thread in a snapshot
Alone == UNCHANGED <<threads, proc>>

(***************************************************************************)
(* Init: a default-constructed OrderManager.                                *)
(***************************************************************************)
Init ==
    /\ orders_ = EmptyMap
    /\ order_ptrs_ = <<>>
    /\ snapshot_dirty_ = TRUE
    /\ total_orders_added_ = 0
    /\ total_orders_cancelled_ = 0
    /\ op = Call("init", 0)
    /\ ret = void
    /\ fills = <<>>
    /\ created = <<>>
    /\ rt_pre = NoRoundTrip
    /\ submitted = [ids |-> {}, qty |-> 0]
    /\ threads = [t \in Threads |-> IdleThread]
    /\ proc = NotStarted

(***************************************************************************)
(* bool OrderManager::add_order(Order order)                                *)
(* No matching is attempted and no Fill is produced: the order is stored    *)
(* as given, or refused when its id is already a key.                       *)
(***************************************************************************)
add_order(order) ==
    /\ total_orders_added_ < MaxAdds
    /\ LET r == try_emplace(orders_, order) IN
        /\ orders_' = r.map
        /\ IF r.inserted
           THEN /\ total_orders_added_' = total_orders_added_ + 1
                /\ snapshot_dirty_' = TRUE
                /\ ret' = TRUE
           ELSE /\ UNCHANGED <<total_orders_added_, snapshot_dirty_>>
                /\ ret' = FALSE
        /\ created' = IF r.inserted THEN Append(created, order) ELSE created
        /\ rt_pre' = IF r.inserted
                     THEN [armed |-> TRUE, book |-> orders_]
                     ELSE NoRoundTrip
    /\ submitted' = IF /\ submitted.qty >= 0
                       /\ order.id \notin submitted.ids
                       /\ order.price > 0
                       /\ order.quantity > 0
                    THEN [ids |-> submitted.ids \cup {order.id},
                          qty |-> submitted.qty + order.quantity]
                    ELSE NotSubmitOnly
    /\ op' = Call("add_order", order.id)
    /\ UNCHANGED <<order_ptrs_, total_orders_cancelled_, fills>>

\* cancel_order that counts a cancel of an id that is not live as well
cancel_order_counts_misses(order_id) ==
    /\ IF order_id \in DOMAIN orders_
       THEN /\ orders_' = erase(orders_, order_id)
            /\ order_ptrs_' = invalidate(order_ptrs_, order_id)
            /\ snapshot_dirty_' = TRUE
            /\ ret' = TRUE
            /\ created' = Forget(created, order_id)
       ELSE /\ UNCHANGED <<orders_, order_ptrs_, snapshot_dirty_, created>>
            /\ ret' = FALSE
    /\ total_orders_cancelled_' = total_orders_cancelled_ + 1
    /\ rt_pre' = NoRoundTrip
    /\ submitted' = NotSubmitOnly
    /\ op' = Call("cancel_order", order_id)
    /\ UNCHANGED <<total_orders_added_, fills>>

(***************************************************************************)
(* bool OrderManager::cancel_order(uint64_t order_id)                       *)
(***************************************************************************)
cancel_order(order_id) ==
    /\ IF order_id \in DOMAIN orders_
       THEN /\ orders_' = erase(orders_, order_id)
            /\ order_ptrs_' = invalidate(order_ptrs_, order_id)
            /\ total_orders_cancelled_' = total_orders_cancelled_ + 1
            /\ snapshot_dirty_' = TRUE
            /\ ret' = TRUE
            /\ created' = Forget(created, order_id)
       ELSE /\ UNCHANGED <<orders_, order_ptrs_, total_orders_cancelled_,
                           snapshot_dirty_, created>>
            /\ ret' = FALSE
    /\ rt_pre' = IF rt_pre.armed /\ op = Call("add_order", order_id)
                 THEN rt_pre
                 ELSE NoRoundTrip
    /\ submitted' = NotSubmitOnly
    /\ op' = Call("cancel_order", order_id)
    /\ UNCHANGED <<total_orders_added_, fills>>

\* get_order written with orders_[order_id]: a lookup of an absent id inserts
\* a default Order
get_order_inserting(order_id) ==
    /\ orders_' = [j \in DOMAIN orders_ \cup {order_id} |->
                      IF j \in DOMAIN orders_ THEN orders_[j]
                                              ELSE Order(order_id, 0, 0, 0)]
    /\ ret' = ptr_to(orders_'[order_id])
    /\ op' = Call("get_order", order_id)
    /\ rt_pre' = NoRoundTrip
    /\ submitted' = NotSubmitOnly
    /\ UNCHANGED <<order_ptrs_, snapshot_dirty_, total_orders_added_,
                   total_orders_cancelled_, fills, created>>

(***************************************************************************)
(* const Order* OrderManager::get_order(uint64_t order_id) const            *)
(***************************************************************************)
get_order(order_id) ==
    /\ ret' = IF order_id \in DOMAIN orders_
              THEN ptr_to(orders_[order_id])
              ELSE nullptr
    /\ op' = Call("get_order", order_id)
    /\ rt_pre' = NoRoundTrip
    /\ submitted' = NotSubmitOnly
    /\ UNCHANGED <<orders_, order_ptrs_, snapshot_dirty_, total_orders_added_,
                   total_orders_cancelled_, fills, created>>

\* clear() without order_ptrs_.clear(): the cache keeps pointers to the
\* destroyed nodes and is marked clean
clear_stale_cache ==
    /\ orders_' = EmptyMap
    /\ order_ptrs_' = [k \in DOMAIN order_ptrs_ |->
                         [order_ptrs_[k] EXCEPT !.dangling = TRUE]]
    /\ snapshot_dirty_' = FALSE
    /\ total_orders_added_' = 0
    /\ total_orders_cancelled_' = 0
    /\ ret' = void
    /\ op' = Call("clear", 0)
    /\ created' = <<>>
    /\ rt_pre' = NoRoundTrip
    /\ submitted' = NotSubmitOnly
    /\ UNCHANGED fills

(***************************************************************************)
(* void OrderManager::clear()                                               *)
(***************************************************************************)
clear ==
    /\ orders_' = EmptyMap
    /\ order_ptrs_' = <<>>
    /\ snapshot_dirty_' = FALSE
    /\ total_orders_added_' = 0
    /\ total_orders_cancelled_' = 0
    /\ ret' = void
    /\ op' = Call("clear", 0)
    /\ created' = <<>>
    /\ rt_pre' = NoRoundTrip
    /\ submitted' = NotSubmitOnly
    /\ UNCHANGED fills

\* rebuild_snapshot_cache that returns at once, dirty or not
rebuild_snapshot_cache_never == {order_ptrs_}

(***************************************************************************)
(* void OrderManager::rebuild_snapshot_cache() const                        *)
(* The caches it may leave: the old one when the cache is not dirty, else   *)
(* pointers to the live nodes in the map's (unspecified) iteration order.   *)
(***************************************************************************)
rebuild_snapshot_cache ==
    IF ~snapshot_dirty_
    THEN {order_ptrs_}
    ELSE {[k \in DOMAIN s |-> Ptr(s[k])] : s \in IterationOrders(DOMAIN orders_)}

\* The Orders a read through each cached pointer may yield: the node's Order,
\* or anything at all through a dangling pointer.
Deref(ptrs) ==
    IF \A k \in DOMAIN ptrs : ~ptrs[k].dangling
    THEN {[k \in DOMAIN ptrs |-> orders_[ptrs[k].id]]}
    ELSE {d \in [DOMAIN ptrs -> Orders] :
            \A k \in DOMAIN ptrs :
                ~ptrs[k].dangling => d[k] = orders_[ptrs[k].id]}

\* the comparator with the Buy branch comparing like the Sell branch
compare_ascending(a, b) ==
    IF is_buy(a) # is_buy(b)
    THEN is_buy(a)
    ELSE a.price < b.price

\* the comparator of print_snapshot's std::sort
compare(a, b) ==
    IF is_buy(a) # is_buy(b)
    THEN is_buy(a)
    ELSE IF is_buy(a) THEN a.price > b.price
                      ELSE a.price < b.price

\* std::sort is not stable: any arrangement of the elements that the
\* comparator does not contradict
std_sort(seq) ==
    {[k \in DOMAIN seq |-> seq[pi[k]]] : pi \in
        {q \in IterationOrders(DOMAIN seq) :
            \A i, j \in DOMAIN seq : i < j => ~compare(seq[q[j]], seq[q[i]])}}

\* one printed line: id, price, quantity, side label
Row(order) ==
    [id |-> order.id, price |-> order.price, quantity |-> order.quantity,
     side |-> IF is_buy(order) THEN "BUY" ELSE "SELL"]

(***************************************************************************)
(* void OrderManager::print_snapshot(std::ostream& os) const                *)
(* ret holds what is written: the "Total Active Orders" count and the rows. *)
(***************************************************************************)
print_snapshot ==
    /\ \E cache \in rebuild_snapshot_cache :
        /\ order_ptrs_' = cache
        /\ snapshot_dirty_' = FALSE
        /\ \E d \in Deref(cache) : \E sorted_orders \in std_sort(d) :
             ret' = [total |-> Len(cache),
                     rows |-> [k \in DOMAIN sorted_orders |-> Row(sorted_orders[k])]]
    /\ op' = Call("print_snapshot", 0)
    /\ rt_pre' = NoRoundTrip
    /\ submitted' = NotSubmitOnly
    /\ UNCHANGED <<orders_, total_orders_added_, total_orders_cancelled_,
                   fills, created>>

Next ==
    \/ \E order \in Orders : add_order(order) /\ Alone
    \/ \E order_id \in Ids : cancel_order(order_id) /\ Alone
    \/ \E order_id \in Ids : get_order(order_id) /\ Alone
    \/ clear /\ Alone
    \/ print_snapshot /\ Alone

Spec == Init /\ [][Next]_vars

\* the same operations on a book of three orders
NextBook ==
    \/ \E order \in BookOrders : add_order(order) /\ Alone
    \/ \E order_id \in BookIds : cancel_order(order_id) /\ Alone
    \/ \E order_id \in BookIds : get_order(order_id) /\ Alone
    \/ clear /\ Alone
    \/ print_snapshot /\ Alone

SpecBook == Init /\ [][NextBook]_vars

(***************************************************************************)
(* CSV loading. A line is its sequence of characters; a file is its         *)
(* sequence of lines, or NoFile when it cannot be opened.                   *)
(***************************************************************************)
\* lines per file in the model
MaxLines == 2

Digits == {"0", "1", "2", "3", "4", "5", "6", "7", "8", "9"}
DigitValue(c) ==
    CASE c = "0" -> 0 [] c = "1" -> 1 [] c = "2" -> 2 [] c = "3" -> 3
      [] c = "4" -> 4 [] c = "5" -> 5 [] c = "6" -> 6 [] c = "7" -> 7
      [] c = "8" -> 8 [] c = "9" -> 9

\* std::getline(iss, token, ','): fails when the stream is exhausted, else
\* yields the characters up to the next comma (or the end) and skips the comma
getline(line, pos) ==
    IF pos > Len(line)
    THEN [ok |-> FALSE, token |-> <<>>, next |-> pos]
    ELSE LET commas == {k \in pos..Len(line) : line[k] = ","}
             stop == IF commas = {} THEN Len(line) + 1
                     ELSE CHOOSE k \in commas : \A l \in commas : k <= l
         IN [ok |-> TRUE, token |-> SubSeq(line, pos, stop - 1), next |-> stop + 1]

\* the digits a numeric conversion consumes: the longest prefix of digits
\* (the model's alphabet has no whitespace, sign, point or exponent)
DigitPrefix(token) ==
    LET n == Cardinality({k \in DOMAIN token :
                            \A j \in 1..k : token[j] \in Digits})
    IN SubSeq(token, 1, n)

RECURSIVE ToNumber(_)
ToNumber(digits) ==
    IF digits = <<>> THEN 0
    ELSE 10 * ToNumber(SubSeq(digits, 1, Len(digits) - 1))
         + DigitValue(digits[Len(digits)])

\* std::stoull, std::stoul, std::stod: convert the leading digits and ignore
\* what follows them; throw std::invalid_argument when there are none
stoull(token) ==
    [threw |-> DigitPrefix(token) = <<>>, value |-> ToNumber(DigitPrefix(token))]
stoul(token) == stoull(token)
stod(token) == stoull(token)

\* the variant that also throws on trailing characters (pos != token.size())
stoull_strict(token) ==
    [threw |-> DigitPrefix(token) = <<>> \/ DigitPrefix(token) # token,
     value |-> ToNumber(DigitPrefix(token))]

(***************************************************************************)
(* std::unique_ptr<Order> OrderManager::parse_csv_line(line) const          *)
(* nullptr, or a pointer to the parsed Order. Every number of the model's   *)
(* lines is below 2^32, so the narrowing to uint32_t leaves it as it is.    *)
(***************************************************************************)
parse_csv_line(line) ==
    LET t1 == getline(line, 1)
        t2 == getline(line, t1.next)
        t3 == getline(line, t2.next)
        t4 == getline(line, t3.next)
        id == stoull(t1.token)
        price == stod(t2.token)
        quantity == stoul(t3.token)
        side == stoul(t4.token)
    IN  IF ~t1.ok \/ id.threw THEN nullptr
        ELSE IF ~t2.ok \/ price.threw THEN nullptr
        ELSE IF ~t3.ok \/ quantity.threw THEN nullptr
        ELSE IF ~t4.ok \/ side.threw THEN nullptr
        ELSE IF side.value > 1 THEN nullptr
        ELSE ptr_to(Order(id.value, price.value, quantity.value, side.value))

\* line.find(word) != std::string::npos
Contains(line, word) ==
    \E k \in 1..(Len(line) - Len(word) + 1) :
        SubSeq(line, k, k + Len(word) - 1) = word

\* the header test without the upper-case alternative
is_header_lowercase(line) == Contains(line, <<"i", "d">>)

\* the header test of load_from_csv: "id" or "ID" anywhere in the first line
is_header(line) ==
    Contains(line, <<"i", "d">>) \/ Contains(line, <<"I", "D">>)

\* Characters of the fields and lines the model loads.
Join(fields) ==
    LET RECURSIVE J(_)
        J(k) == IF k > Len(fields) THEN <<>>
                ELSE IF k = Len(fields) THEN fields[k]
                ELSE fields[k] \o <<",">> \o J(k + 1)
    IN J(1)
F_0 == <<"0">>
F_1 == <<"1">>
F_2 == <<"2">>
F_7 == <<"7">>
F_10 == <<"1", "0">>
F_99 == <<"9", "9">>
F_100 == <<"1", "0", "0">>
F_abc == <<"a", "b", "c">>
F_2x == <<"2", "x">>
F_0id == <<"0", "i", "d">>
F_id == <<"i", "d">>
F_price == <<"p", "r", "i", "c", "e">>
F_quantity == <<"q", "u", "a", "n", "t", "i", "t", "y">>
F_side == <<"s", "i", "d", "e">>

CsvLines ==
    {Join(<<F_id, F_price, F_quantity, F_side>>),      \* id,price,quantity,side
     Join(<<<<"I", "D">>, <<"P">>, <<"Q">>, <<"S">>>>), \* ID,P,Q,S
     Join(<<F_1, F_100, F_10, F_0>>),                  \* 1,100,10,0
     Join(<<F_2, F_99, F_10, F_1>>),                   \* 2,99,10,1
     Join(<<F_abc, F_100, F_10, F_0>>),                \* abc,100,10,0
     Join(<<F_2x, F_100, F_10, F_0>>),                 \* 2x,100,10,0
     Join(<<F_1, F_100, F_10>>),                       \* 1,100,10
     Join(<<F_1, F_100, F_10, F_0, F_7>>),             \* 1,100,10,0,7
     Join(<<F_1, F_100, F_10, F_2>>),                  \* 1,100,10,2
     Join(<<F_2, F_100, F_10, F_0id>>),                \* 2,100,10,0id
     Join(<<F_1, <<>>, F_10, F_0>>),                   \* 1,,10,0
     <<>>}                                             \* an empty line
\* parse_csv_line and the header test on each line of the model
ParsedLine == [l \in CsvLines |-> parse_csv_line(l)]
HeaderLine == [l \in CsvLines |-> is_header(l)]

\* the lines load_from_csv hands to parse_csv_line, in order: the first line
\* (an empty string when the file has none) unless it looks like a header,
\* then every later line that is not empty
DataLines(file) ==
    LET first == IF file = <<>> THEN <<>> ELSE file[1]
        rest == SelectSeq(SubSeq(file, 2, Len(file)), LAMBDA l : l # <<>>)
    IN IF HeaderLine[first] THEN rest ELSE <<first>> \o rest

RECURSIVE LoadLines(_, _, _)
\* the loop of load_from_csv over the data lines from index k on, starting
\* with map m: the map it leaves and the orders add_order accepted, in order
LoadLines(lines, k, m) ==
    IF k > Len(lines) THEN [map |-> m, loaded |-> <<>>]
    ELSE LET order == ParsedLine[lines[k]]
             r == IF order = nullptr
                  THEN [map |-> m, inserted |-> FALSE]
                  ELSE try_emplace(m, CHOOSE o \in order : TRUE)
             tail == LoadLines(lines, k + 1, r.map)
         IN [map |-> tail.map,
             loaded |-> IF r.inserted
                        THEN <<CHOOSE o \in order : TRUE>> \o tail.loaded
                        ELSE tail.loaded]

\* what a file name stands for: whether a stream on it opens, and its lines
File(lines) == [openable |-> TRUE, lines |-> lines]
\* a file that cannot be opened
NoFile == [openable |-> FALSE, lines |-> <<>>]
\* a call of an operation on a file
CallOnFile(name, file) == [name |-> name, id |-> 0, file |-> file]
\* an open test that never fails
is_open_always(file) == TRUE
\* std::ifstream / std::ofstream file(filename); file.is_open()
is_open(file) == file.openable
\* the lines std::getline reads from the stream
LinesOf(file) == file.lines

(***************************************************************************)
(* size_t OrderManager::load_from_csv(const std::string& filename)          *)
(* ret holds whether it threw, the returned count, and whether the first    *)
(* line was skipped as a header.                                            *)
(***************************************************************************)
load_from_csv(file) ==
    /\ total_orders_added_ + Len(LinesOf(file)) <= MaxAdds
    /\ IF ~is_open(file)
       THEN /\ ret' = [threw |-> TRUE, loaded_count |-> 0, header |-> FALSE]
            /\ UNCHANGED <<orders_, total_orders_added_, snapshot_dirty_, created>>
       ELSE LET lines == LinesOf(file)
                r == LoadLines(DataLines(lines), 1, orders_)
            IN /\ orders_' = r.map
               /\ total_orders_added_' = total_orders_added_ + Len(r.loaded)
               /\ snapshot_dirty_' = (snapshot_dirty_ \/ r.loaded # <<>>)
               /\ created' = created \o r.loaded
               /\ ret' = [threw |-> FALSE, loaded_count |-> Len(r.loaded),
                          header |-> lines # <<>> /\ HeaderLine[lines[1]]]
    /\ op' = CallOnFile("load_from_csv", file)
    /\ rt_pre' = NoRoundTrip
    /\ submitted' = NotSubmitOnly
    /\ UNCHANGED <<order_ptrs_, total_orders_cancelled_, fills>>

(***************************************************************************)
(* void OrderManager::print_snapshot_to_file(const std::string& filename)   *)
(* Throws when the file cannot be opened, else print_snapshot(file).        *)
(***************************************************************************)
print_snapshot_to_file(file) ==
    /\ IF ~is_open(file)
       THEN /\ ret' = [threw |-> TRUE, total |-> 0, rows |-> <<>>]
            /\ UNCHANGED <<order_ptrs_, snapshot_dirty_>>
       ELSE \E cache \in rebuild_snapshot_cache :
            /\ order_ptrs_' = cache
            /\ snapshot_dirty_' = FALSE
            /\ \E d \in Deref(cache) : \E sorted_orders \in std_sort(d) :
                 ret' = [threw |-> FALSE, total |-> Len(cache),
                         rows |-> [k \in DOMAIN sorted_orders |->
                                     Row(sorted_orders[k])]]
    /\ op' = CallOnFile("print_snapshot_to_file", file)
    /\ rt_pre' = NoRoundTrip
    /\ submitted' = NotSubmitOnly
    /\ UNCHANGED <<orders_, total_orders_added_, total_orders_cancelled_,
                   fills, created>>

\* the lines a file may hold after its first line
LaterLines ==
    {Join(<<F_id, F_price, F_quantity, F_side>>),
     Join(<<F_2, F_99, F_10, F_1>>),
     Join(<<F_abc, F_100, F_10, F_0>>),
     Join(<<F_2x, F_100, F_10, F_0>>),
     <<>>}
CsvFiles ==
    {File(lines) : lines \in
        {l \in UNION {[1..n -> CsvLines] : n \in 0..MaxLines} :
            \A k \in 2..Len(l) : l[k] \in LaterLines}}
\* the files a snapshot is written to: one that opens, one that does not
OutFiles == {File(<<>>), NoFile}

\* orders already in the book when a file is loaded
CsvSeedOrders == {Order(1, 99, 15, 1), Order(2, 100, 30, 0)}

NextCsv ==
    \/ \E file \in CsvFiles \cup {NoFile} : load_from_csv(file) /\ Alone
    \/ \E file \in OutFiles : print_snapshot_to_file(file) /\ Alone
    \/ \E order \in CsvSeedOrders : add_order(order) /\ Alone
    \/ \E order_id \in Ids : cancel_order(order_id) /\ Alone
    \/ clear /\ Alone
    \/ print_snapshot /\ Alone

SpecCsv == Init /\ [][NextCsv]_vars

(***************************************************************************)
(* Two threads inside print_snapshot. The function is const but writes the  *)
(* mutable members order_ptrs_ and snapshot_dirty_ without synchronisation. *)
(* Each step is one read or write of a shared member. The writes of two     *)
(* threads to the vector race (undefined behaviour): beside the outcomes in *)
(* which each vector operation takes effect whole, a push_back that races   *)
(* with another may be lost.                                                *)
(***************************************************************************)
\* what the threads leave alone
CallerUnchanged ==
    UNCHANGED <<orders_, total_orders_added_, total_orders_cancelled_,
                op, ret, fills, created, rt_pre, submitted, proc>>
AllIdle == \A t \in Threads : threads[t].pc = "idle"

\* rebuild_snapshot_cache: if (!snapshot_dirty_) return;
snapshot_begin(t) ==
    /\ threads[t].pc = "idle"
    /\ threads' = [threads EXCEPT ![t].pc =
                      IF snapshot_dirty_ THEN "clear" ELSE "total"]
    /\ UNCHANGED <<order_ptrs_, snapshot_dirty_>>
    /\ CallerUnchanged

\* order_ptrs_.clear(); order_ptrs_.reserve(...); the range-for begins
cache_clear(t) ==
    /\ threads[t].pc = "clear"
    /\ order_ptrs_' = <<>>
    /\ \E s \in IterationOrders(DOMAIN orders_) :
          threads' = [threads EXCEPT
                         ![t].todo = s,
                         ![t].pc = IF s = <<>> THEN "clean" ELSE "push"]
    /\ UNCHANGED snapshot_dirty_
    /\ CallerUnchanged

\* order_ptrs_.push_back(&order) for the next node of the range-for
cache_push(t) ==
    /\ threads[t].pc = "push"
    /\ \/ order_ptrs_' = Append(order_ptrs_, Ptr(Head(threads[t].todo)))
       \/ /\ \E u \in Threads \ {t} : threads[u].pc = "push"
          /\ order_ptrs_' = order_ptrs_
    /\ threads' = [threads EXCEPT
                      ![t].todo = Tail(threads[t].todo),
                      ![t].pc = IF Tail(threads[t].todo) = <<>>
                                THEN "clean" ELSE "push"]
    /\ UNCHANGED snapshot_dirty_
    /\ CallerUnchanged

\* snapshot_dirty_ = false
cache_clean(t) ==
    /\ threads[t].pc = "clean"
    /\ snapshot_dirty_' = FALSE
    /\ threads' = [threads EXCEPT ![t].pc = "total"]
    /\ UNCHANGED order_ptrs_
    /\ CallerUnchanged

\* "Total Active Orders: " << order_ptrs_.size(), and the early return of an
\* empty cache
write_total(t) ==
    /\ threads[t].pc = "total"
    /\ threads' = [threads EXCEPT
                      ![t].out = [total |-> Len(order_ptrs_), rows |-> <<>>],
                      ![t].pc = IF order_ptrs_ = <<>> THEN "done" ELSE "rows"]
    /\ UNCHANGED <<order_ptrs_, snapshot_dirty_>>
    /\ CallerUnchanged

\* sorted_orders = order_ptrs_; std::sort; one row per pointer
write_rows(t) ==
    /\ threads[t].pc = "rows"
    /\ \E d \in Deref(order_ptrs_) : \E sorted_orders \in std_sort(d) :
          threads' = [threads EXCEPT
                         ![t].out.rows = [k \in DOMAIN sorted_orders |->
                                            Row(sorted_orders[k])],
                         ![t].pc = "done"]
    /\ UNCHANGED <<order_ptrs_, snapshot_dirty_>>
    /\ CallerUnchanged

\* print_snapshot returns to its caller
snapshot_return(t) ==
    /\ threads[t].pc = "done"
    /\ threads' = [threads EXCEPT ![t].pc = "idle"]
    /\ UNCHANGED <<order_ptrs_, snapshot_dirty_>>
    /\ CallerUnchanged

\* Mutating operations run only while no thread is inside print_snapshot.
NextConc ==
    \/ \E t \in Threads : snapshot_begin(t)
    \/ \E t \in Threads : cache_clear(t)
    \/ \E t \in Threads : cache_push(t)
    \/ \E t \in Threads : cache_clean(t)
    \/ \E t \in Threads : write_total(t)
    \/ \E t \in Threads : write_rows(t)
    \/ \E t \in Threads : snapshot_return(t)
    \/ \E order \in CsvSeedOrders : AllIdle /\ add_order(order) /\ Alone
    \/ \E order_id \in Ids : AllIdle /\ cancel_order(order_id) /\ Alone
    \/ AllIdle /\ clear /\ Alone

SpecConc == Init /\ [][NextConc]_vars

(***************************************************************************)
(* main(argc, argv) on a fresh manager. argv holds the arguments after the  *)
(* program name; proc.pc is the call main makes next.                       *)
(***************************************************************************)
Commands == {"load", "generate", "benchmark", "snapshot", "stats", "interactive"}
\* the <count> arguments: 0, 1, 2 and one that is no number
CountTokens == {F_0, F_1, F_2, F_abc}
Argvs ==
    {<<>>, <<"bogus">>, <<"bogus", F_1>>}
    \cup {<<c>> : c \in Commands}
    \cup {<<"load", file>> : file \in CsvFiles \cup {NoFile}}
    \cup {<<"snapshot", file>> : file \in OutFiles}
    \cup {<<c, n>> : c \in {"generate", "benchmark"}, n \in CountTokens}

\* the orders generate_random_orders may draw for an id
RandomOrders(order_id) ==
    {Order(order_id, 100, q, s) : q \in {10, 15}, s \in Sides}
\* the orders typed in interactive mode
InteractiveOrders == CsvSeedOrders

\* print_usage(); return 0 after either print_usage()
usage_exit_zero(argc) == 0
\* the two print_usage() returns of main: 0 without a command, else 1
usage_exit(argc) == IF argc < 2 THEN 0 ELSE 1

Exit(code, caught) ==
    [proc EXCEPT !.pc = "exited", !.exit_code = code, !.caught = caught]
At(pc) == [proc EXCEPT !.pc = pc]

\* what a step of main that calls nothing on the manager leaves alone
ManagerUnchanged ==
    UNCHANGED <<orders_, order_ptrs_, snapshot_dirty_, total_orders_added_,
                total_orders_cancelled_, op, ret, fills, created, rt_pre,
                submitted>>

\* main up to its first call on the manager
main(argv) ==
    /\ proc.pc = "start"
    /\ LET argc == Len(argv) + 1
           command == argv[1]
           started == [proc EXCEPT !.argv = argv]
       IN proc' =
            IF argc < 2
            THEN [started EXCEPT !.pc = "exited", !.exit_code = usage_exit(argc)]
            ELSE IF command = "load" /\ argc >= 3
            THEN [started EXCEPT !.pc = "load"]
            ELSE IF command \in {"generate", "benchmark"} /\ argc >= 3
            THEN IF stoul(argv[2]).threw
                 THEN [started EXCEPT !.pc = "exited", !.exit_code = 1,
                                      !.caught = TRUE]
                 ELSE [started EXCEPT
                          !.count = stoul(argv[2]).value,
                          !.pc = IF command = "benchmark" THEN "bench_clear"
                                 ELSE IF stoul(argv[2]).value = 0
                                 THEN "print_snapshot" ELSE "generate"]
            ELSE IF command = "snapshot"
            THEN [started EXCEPT !.pc = "snapshot"]
            ELSE IF command = "stats"
            THEN [started EXCEPT !.pc = "stats"]
            ELSE IF command = "interactive"
            THEN [started EXCEPT !.pc = "interactive"]
            ELSE [started EXCEPT !.pc = "exited", !.exit_code = usage_exit(argc)]
    /\ ManagerUnchanged
    /\ UNCHANGED threads

(***************************************************************************)
(* void OrderManager::print_stats(std::ostream& os) const                   *)
(***************************************************************************)
print_stats ==
    /\ ret' = [active |-> size, added |-> total_orders_added_,
               cancelled |-> total_orders_cancelled_]
    /\ op' = Call("print_stats", 0)
    /\ rt_pre' = NoRoundTrip
    /\ submitted' = NotSubmitOnly
    /\ UNCHANGED <<orders_, order_ptrs_, snapshot_dirty_, total_orders_added_,
                   total_orders_cancelled_, fills, created>>

\* load: manager.load_from_csv(filename); an exception is caught by main
main_load ==
    /\ proc.pc = "load"
    /\ load_from_csv(proc.argv[2])
    /\ proc' = IF ret'.threw THEN Exit(1, TRUE) ELSE At("print_snapshot")
    /\ UNCHANGED threads

\* load, generate: manager.print_snapshot(); return 0
main_print_snapshot ==
    /\ proc.pc = "print_snapshot"
    /\ print_snapshot
    /\ proc' = Exit(0, FALSE)
    /\ UNCHANGED threads

\* one turn of the loop of generate_random_orders
generate_random_orders ==
    /\ proc.pc \in {"generate", "bench_generate"}
    /\ \E order \in RandomOrders(proc.i + 1) : add_order(order)
    /\ proc' = [proc EXCEPT
                  !.i = proc.i + 1,
                  !.pc = IF proc.i + 1 < proc.count THEN proc.pc
                         ELSE IF proc.pc = "generate" THEN "print_snapshot"
                         ELSE "bench_print"]
    /\ UNCHANGED threads

\* run_benchmark: manager.clear()
bench_clear ==
    /\ proc.pc = "bench_clear"
    /\ clear
    /\ proc' = At(IF proc.count = 0 THEN "bench_print" ELSE "bench_generate")
    /\ UNCHANGED threads

\* run_benchmark: manager.print_snapshot()
bench_print ==
    /\ proc.pc = "bench_print"
    /\ print_snapshot
    /\ proc' = [proc EXCEPT
                  !.i = 1,
                  !.pc = IF proc.count = 0 THEN "bench_stats" ELSE "bench_cancel"]
    /\ UNCHANGED threads

\* run_benchmark: one turn of the loop of cancel_order(i), i = 1..min(count, 1000)
bench_cancel ==
    /\ proc.pc = "bench_cancel"
    /\ cancel_order(proc.i)
    /\ LET last == IF proc.count < 1000 THEN proc.count ELSE 1000
       IN proc' = [proc EXCEPT
                     !.i = proc.i + 1,
                     !.pc = IF proc.i + 1 <= last THEN "bench_cancel"
                            ELSE "bench_stats"]
    /\ UNCHANGED threads

\* run_benchmark: manager.print_stats(); main returns 0
bench_stats ==
    /\ proc.pc = "bench_stats"
    /\ print_stats
    /\ proc' = Exit(0, FALSE)
    /\ UNCHANGED threads

\* snapshot [filename]
main_snapshot ==
    /\ proc.pc = "snapshot"
    /\ IF Len(proc.argv) + 1 >= 3
       THEN /\ print_snapshot_to_file(proc.argv[2])
            /\ proc' = IF ret'.threw THEN Exit(1, TRUE) ELSE Exit(0, FALSE)
       ELSE /\ print_snapshot
            /\ proc' = Exit(0, FALSE)
    /\ UNCHANGED threads

\* stats
main_stats ==
    /\ proc.pc = "stats"
    /\ print_stats
    /\ proc' = Exit(0, FALSE)
    /\ UNCHANGED threads

\* interactive_mode: one command line that calls the manager. A line that
\* calls nothing (help, an unknown or unparsable command, end of input)
\* changes nothing and the loop goes on.
interactive_mode ==
    /\ proc.pc = "interactive"
    /\ \/ \E order \in InteractiveOrders : add_order(order)
       \/ \E order_id \in Ids : cancel_order(order_id)
       \/ print_snapshot
       \/ print_stats
       \/ clear
    /\ UNCHANGED <<proc, threads>>

\* interactive_mode: quit or exit; main returns 0
interactive_quit ==
    /\ proc.pc = "interactive"
    /\ proc' = Exit(0, FALSE)
    /\ ManagerUnchanged
    /\ UNCHANGED threads

NextMain ==
    \/ \E argv \in Argvs : main(argv)
    \/ main_load
    \/ main_print_snapshot
    \/ generate_random_orders
    \/ bench_clear
    \/ bench_print
    \/ bench_cancel
    \/ bench_stats
    \/ main_snapshot
    \/ main_stats
    \/ interactive_mode
    \/ interactive_quit

SpecMain == Init /\ [][NextMain]_vars

\* the orders given to the manager beside its read operations
ReadOrders == CsvSeedOrders \cup EdgeOrders

\* every read operation of the manager among the mutating ones
NextRead ==
    \/ \E order \in ReadOrders : add_order(order) /\ Alone
    \/ \E order_id \in Ids : cancel_order(order_id) /\ Alone
    \/ clear /\ Alone
    \/ \E order_id \in Ids : get_order(order_id) /\ Alone
    \/ print_snapshot /\ Alone
    \/ print_stats /\ Alone

SpecRead == Init /\ [][NextRead]_vars

(***************************************************************************)
(* Helpers of the properties.                                               *)
(***************************************************************************)
RECURSIVE SumOver(_, _)
\* the sum of f[x] over x in S
SumOver(S, f) ==
    IF S = {} THEN 0
    ELSE LET x == CHOOSE y \in S : TRUE IN f[x] + SumOver(S \ {x}, f)

\* the ids the history holds as live, and the Order given when id was created
LiveIds == {created[k].id : k \in DOMAIN created}
CreatedAs(order_id) ==
    created[CHOOSE k \in DOMAIN created : created[k].id = order_id]

\* price levels of one side of a book, and the aggregate quantity of a level
LevelSet(book, side) ==
    {book[i].price : i \in {j \in DOMAIN book : book[j].side = side}}
AggregateQty(book, side, price) ==
    SumOver({i \in DOMAIN book : book[i].side = side /\ book[i].price = price},
            [i \in DOMAIN book |-> book[i].quantity])
SameLevels(b1, b2) ==
    \A side \in Sides \cup {2} :
        /\ LevelSet(b1, side) = LevelSet(b2, side)
        /\ \A price \in LevelSet(b1, side) :
              AggregateQty(b1, side, price) = AggregateQty(b2, side, price)

(***************************************************************************)
(* C1. add_order succeeds if and only if no live order has the same id; a   *)
(* rejected add leaves the book as it was: the same live orders, each with  *)
(* its price, quantity and side.                                            *)
(***************************************************************************)
C1_AddIffIdNotLive ==
    [][\A i \in Ids :
        op' = Call("add_order", i) =>
            /\ ret' = (i \notin LiveIds)
            /\ ret' = (i \notin DOMAIN orders_)
            /\ ~ret' => /\ orders_' = orders_
                        /\ UNCHANGED <<total_orders_added_, total_orders_cancelled_,
                                       order_ptrs_, snapshot_dirty_>>]_vars

\* a duplicate add was rejected after an earlier cancel freed another id
C1_Witness ==
    /\ op.name = "add_order"
    /\ ret = FALSE
    /\ op.id \in DOMAIN orders_
    /\ total_orders_cancelled_ > 0

(***************************************************************************)
(* C2. cancel_order of an id that is not live returns false and changes     *)
(* nothing; of a live id it returns true and removes exactly that order,    *)
(* every other order staying as it was; cancelling the same id again        *)
(* returns false.                                                           *)
(***************************************************************************)
C2_CancelExactlyOne ==
    [][\A i \in Ids :
        op' = Call("cancel_order", i) =>
            /\ ret' = (i \in LiveIds)
            /\ IF i \in DOMAIN orders_
               THEN /\ ret' = TRUE
                    /\ DOMAIN orders_' = DOMAIN orders_ \ {i}
                    /\ \A j \in DOMAIN orders_' : orders_'[j] = orders_[j]
               ELSE /\ ret' = FALSE
                    /\ orders_' = orders_
                    /\ UNCHANGED <<total_orders_added_, total_orders_cancelled_,
                                   order_ptrs_, snapshot_dirty_>>
            /\ (op = Call("cancel_order", i) /\ ret = TRUE) => ret' = FALSE]_vars

\* a cancel succeeded and left another order in the book
C2_Witness ==
    /\ op.name = "cancel_order"
    /\ ret = TRUE
    /\ op.id \notin DOMAIN orders_
    /\ DOMAIN orders_ # {}

(***************************************************************************)
(* C3. get_order returns an order exactly for a live id, and every live     *)
(* order, as stored and as returned, has the id, price and side given at    *)
(* the submit that created it.                                              *)
(***************************************************************************)
C3_GetOrderReturnsCreated ==
    /\ \A i \in LiveIds :
          /\ i \in DOMAIN orders_
          /\ orders_[i].id = i
          /\ orders_[i].price = CreatedAs(i).price
          /\ orders_[i].side = CreatedAs(i).side
    /\ op.name = "get_order" =>
          /\ (ret # nullptr) = (op.id \in LiveIds)
          /\ op.id \in LiveIds =>
                \E o \in ret : /\ ret = ptr_to(o)
                               /\ o.id = op.id
                               /\ o.price = CreatedAs(op.id).price
                               /\ o.side = CreatedAs(op.id).side

\* a lookup found a live order after another id was cancelled and a
\* duplicate of the looked-up id could have been offered
C3_Witness ==
    /\ op.name = "get_order"
    /\ ret # nullptr
    /\ total_orders_cancelled_ > 0
    /\ total_orders_added_ = 2

(***************************************************************************)
(* C4. Round trip: when an order with a fresh id is submitted and the very  *)
(* next call cancels it, the book is again the book before the submit: the  *)
(* same resting orders, the same price levels, the same aggregate           *)
(* quantities.                                                              *)
(***************************************************************************)
C4_SubmitCancelRoundTrip ==
    (op.name = "cancel_order" /\ rt_pre.armed) =>
        /\ ret = TRUE
        /\ orders_ = rt_pre.book
        /\ SameLevels(orders_, rt_pre.book)

\* a round trip ended on a book that holds another order
C4_Witness ==
    /\ op.name = "cancel_order"
    /\ rt_pre.armed
    /\ DOMAIN rt_pre.book # {}

(***************************************************************************)
(* C5. clear() leaves the manager empty: size() is 0, empty() is true, both *)
(* statistics are 0, and a get_order or print_snapshot that follows finds   *)
(* and lists nothing.                                                       *)
(***************************************************************************)
C5_ClearEmpties ==
    [][/\ op' = Call("clear", 0) =>
            /\ size' = 0
            /\ empty'
            /\ total_orders_added_' = 0
            /\ total_orders_cancelled_' = 0
       /\ (op = Call("clear", 0) /\ op'.name = "get_order") => ret' = nullptr
       /\ (op = Call("clear", 0) /\ op'.name = "print_snapshot") =>
            /\ ret'.total = 0
            /\ ret'.rows = <<>>]_vars

\* the state clear() leaves
C5_Witness ==
    /\ op = Call("clear", 0)
    /\ empty
    /\ ~snapshot_dirty_

(***************************************************************************)
(* C6. As documented: after Buy id=1 price=100 qty=50, the submit of Sell   *)
(* id=2 price=100 qty=30 yields exactly one Fill(resting=1, incoming=2,     *)
(* price=100, qty=30), leaves id=1 resting with quantity 20, and id=2 does  *)
(* not rest.                                                                *)
(***************************************************************************)
C6_Buy1 == Order(1, 100, 50, 0)
C6_Sell2 == Order(2, 100, 30, 1)

C6_CrossingSubmitFills ==
    [][(created = <<C6_Buy1>> /\ add_order(C6_Sell2)) =>
          /\ fills' = Append(fills, Fill(1, 2, 100, 30))
          /\ DOMAIN orders_' = {1}
          /\ orders_'[1] = Order(1, 100, 20, 0)]_vars

(***************************************************************************)
(* C6 on the code: add_order matches nothing. After Buy id=1 price=100      *)
(* qty=50, the submit of Sell id=2 price=100 qty=30 is accepted, yields no  *)
(* Fill, leaves id=1 resting with quantity 50 and id=2 resting with         *)
(* quantity 30.                                                             *)
(***************************************************************************)
C6_CrossingSubmitRests ==
    [][(created = <<C6_Buy1>> /\ add_order(C6_Sell2)) =>
          /\ ret' = TRUE
          /\ fills' = fills
          /\ DOMAIN orders_' = {1, 2}
          /\ orders_'[1] = C6_Buy1
          /\ orders_'[2] = C6_Sell2]_vars

\* the two submits of the scenario have been made, in this order
C6_Witness ==
    /\ op = Call("add_order", 2)
    /\ ret = TRUE
    /\ created = <<C6_Buy1, C6_Sell2>>

(***************************************************************************)
(* C7. As documented: trades execute at the resting order's price, in the   *)
(* order generated: after Sell id=1 price=99 qty=10 and Sell id=2 price=100 *)
(* qty=10, the submit of Buy id=3 price=100 qty=15 yields Fills             *)
(* (1,3,99,10) then (2,3,100,5), id=2 rests with quantity 5 and id=3 does   *)
(* not rest.                                                                *)
(***************************************************************************)
C7_Sell1 == Order(1, 99, 10, 1)
C7_Sell2 == Order(2, 100, 10, 1)
C7_Buy3 == Order(3, 100, 15, 0)

C7_FillsAtRestingPrice ==
    [][(created = <<C7_Sell1, C7_Sell2>> /\ add_order(C7_Buy3)) =>
          /\ fills' = fills \o <<Fill(1, 3, 99, 10), Fill(2, 3, 100, 5)>>
          /\ DOMAIN orders_' = {2}
          /\ orders_'[2] = Order(2, 100, 5, 1)]_vars

(***************************************************************************)
(* C7 on the code: no trade executes at any price. After Sell id=1 price=99 *)
(* qty=10 and Sell id=2 price=100 qty=10, the submit of Buy id=3 price=100  *)
(* qty=15 yields no Fill; ids 1 and 2 rest with quantity 10 each and id=3   *)
(* rests with quantity 15 at price 100.                                     *)
(***************************************************************************)
C7_NoTradeAllRest ==
    [][(created = <<C7_Sell1, C7_Sell2>> /\ add_order(C7_Buy3)) =>
          /\ ret' = TRUE
          /\ fills' = <<>>
          /\ DOMAIN orders_' = {1, 2, 3}
          /\ orders_'[1] = C7_Sell1
          /\ orders_'[2] = C7_Sell2
          /\ orders_'[3] = C7_Buy3]_vars

\* the three submits of the scenario have been made, in this order
C7_Witness ==
    /\ op = Call("add_order", 3)
    /\ ret = TRUE
    /\ created = <<C7_Sell1, C7_Sell2, C7_Buy3>>

(***************************************************************************)
(* C8. As documented, FIFO within a price: when Buy id=1 and then Buy id=2  *)
(* were submitted at the same price, an incoming Sell that crosses them and *)
(* whose quantity covers both fills id=1 fully before touching id=2.        *)
(***************************************************************************)
\* the incoming Sells that cross a Buy level at price p and cover quantity q
CoveringSells(p, q) ==
    {o \in BookOrders : o.id = 3 /\ is_sell(o) /\ o.price <= p /\ o.quantity >= q}

C8_FifoWithinPrice ==
    [][\A p \in Prices : \A sell \in CoveringSells(p, 20) :
        (created = <<Order(1, p, 10, 0), Order(2, p, 10, 0)>> /\ add_order(sell)) =>
            /\ Len(fills') >= Len(fills) + 2
            /\ fills'[Len(fills) + 1] = Fill(1, 3, p, 10)
            /\ fills'[Len(fills) + 2].resting = 2]_vars

(***************************************************************************)
(* C8 on the code: resting orders are never matched, in submission order or *)
(* any other. When Buy id=1 and then Buy id=2 were submitted at the same    *)
(* price, an incoming Sell that crosses them and covers both fills neither: *)
(* no Fill is emitted, ids 1 and 2 keep their full quantity and the Sell    *)
(* rests with its full quantity.                                            *)
(***************************************************************************)
C8_SamePriceNeverMatched ==
    [][\A p \in Prices : \A sell \in CoveringSells(p, 20) :
        (created = <<Order(1, p, 10, 0), Order(2, p, 10, 0)>> /\ add_order(sell)) =>
            /\ fills' = fills
            /\ Len(fills') = 0
            /\ \A i \in {1, 2} : orders_'[i] = Order(i, p, 10, 0)
            /\ orders_'[3] = sell
            /\ created' = Append(created, sell)]_vars

\* two Buys at one price, id=1 first, and then a Sell covering both
C8_Witness ==
    /\ op = Call("add_order", 3)
    /\ Len(created) = 3
    /\ \E p \in Prices :
          /\ created[1] = Order(1, p, 10, 0)
          /\ created[2] = Order(2, p, 10, 0)
          /\ created[3] \in CoveringSells(p, 20)

(***************************************************************************)
(* C9. As documented, price priority: against an incoming Sell that crosses *)
(* it, a resting Buy at the higher price matches before a resting Buy at    *)
(* the lower price, whichever of the two arrived first.                     *)
(***************************************************************************)
\* the books of two resting Buys, hi at 100 and lo at 99, in either arrival order
TwoBuyLevels(hi, lo) ==
    {<<Order(hi, 100, 10, 0), Order(lo, 99, 10, 0)>>,
     <<Order(lo, 99, 10, 0), Order(hi, 100, 10, 0)>>}

C9_PricePriority ==
    [][\A hi \in {1, 2} : \A lo \in {1, 2} \ {hi} : \A sell \in CoveringSells(100, 15) :
        (created \in TwoBuyLevels(hi, lo) /\ add_order(sell)) =>
            /\ Len(fills') > Len(fills)
            /\ fills'[Len(fills) + 1].resting = hi
            /\ fills'[Len(fills) + 1].price = 100]_vars

(***************************************************************************)
(* C9 on the code: no resting Buy is matched, at the higher price or the    *)
(* lower. Against an incoming Sell that crosses them, Buys resting at two   *)
(* prices both stay in the book unchanged, whichever arrived first; the     *)
(* Sell is stored beside them and no Fill is emitted.                       *)
(***************************************************************************)
C9_NoPriceLevelMatched ==
    [][\A hi \in {1, 2} : \A lo \in {1, 2} \ {hi} : \A sell \in CoveringSells(100, 15) :
        (created \in TwoBuyLevels(hi, lo) /\ add_order(sell)) =>
            /\ Len(fills') = Len(fills)
            /\ orders_'[hi] = Order(hi, 100, 10, 0)
            /\ orders_'[lo] = Order(lo, 99, 10, 0)
            /\ DOMAIN orders_' = {hi, lo, sell.id}
            /\ orders_'[sell.id].quantity = sell.quantity]_vars

\* the lower-priced Buy arrived first, and a Sell at 99 crossing both followed
C9_Witness ==
    /\ op = Call("add_order", 3)
    /\ Len(created) = 3
    /\ created[1].price = 99 /\ is_buy(created[1])
    /\ created[2].price = 100 /\ is_buy(created[2])
    /\ is_sell(created[3]) /\ created[3].price = 99

(***************************************************************************)
(* C10. Quantity conservation: after any sequence of submits with unique    *)
(* ids and positive price and quantity, the quantity resting in the book    *)
(* plus the quantity of the emitted Fills equals the quantity submitted.    *)
(***************************************************************************)
SumResting == SumOver(DOMAIN orders_, [i \in DOMAIN orders_ |-> orders_[i].quantity])
SumFilled == SumOver(DOMAIN fills, [k \in DOMAIN fills |-> fills[k].qty])

C10_QuantityConservation ==
    submitted.qty >= 0 => SumResting + SumFilled = submitted.qty

\* a submit-only run of two orders that cross: a Buy and a Sell at or below it
C10_Witness ==
    /\ submitted.qty >= 0
    /\ submitted.ids = {1, 2}
    /\ \E b \in DOMAIN orders_ : \E a \in DOMAIN orders_ :
          /\ is_buy(orders_[b])
          /\ is_sell(orders_[a])
          /\ orders_[b].price >= orders_[a].price
          /\ orders_[b].quantity # orders_[a].quantity

(***************************************************************************)
(* C11. As documented: a submit whose price is <= 0 or whose quantity is    *)
(* <= 0 is rejected and leaves the book unchanged, so that no live order    *)
(* has a non-positive price or a zero quantity.                             *)
(***************************************************************************)
C11_InvalidSubmitRejected ==
    [][\A order \in Orders :
        add_order(order) =>
            /\ (order.price <= 0 \/ order.quantity <= 0) =>
                  /\ ret' = FALSE
                  /\ orders_' = orders_
            /\ \A i \in DOMAIN orders_' :
                  orders_'[i].price > 0 /\ orders_'[i].quantity > 0]_vars

(***************************************************************************)
(* C14. As documented: the snapshot lists all buys before all sells, buys   *)
(* in descending price, sells in ascending price, and orders of the same    *)
(* side and price in submission order.                                      *)
(***************************************************************************)
\* position of a live id in submission order
ArrivalPos(order_id) ==
    CHOOSE k \in DOMAIN created : created[k].id = order_id

\* rows i < j of a listing are in side-then-price order
SideThenPrice(rows) ==
    \A i, j \in DOMAIN rows :
        i < j =>
            /\ ~(rows[i].side = "SELL" /\ rows[j].side = "BUY")
            /\ (rows[i].side = "BUY" /\ rows[j].side = "BUY") =>
                  rows[i].price >= rows[j].price
            /\ (rows[i].side = "SELL" /\ rows[j].side = "SELL") =>
                  rows[i].price <= rows[j].price

C14_SnapshotPriceThenArrival ==
    op.name = "print_snapshot" =>
        /\ SideThenPrice(ret.rows)
        /\ \A i, j \in DOMAIN ret.rows :
              (/\ i < j
               /\ ret.rows[i].side = ret.rows[j].side
               /\ ret.rows[i].price = ret.rows[j].price) =>
                  ArrivalPos(ret.rows[i].id) < ArrivalPos(ret.rows[j].id)

(***************************************************************************)
(* C14 on the code: the snapshot lists every live order once, all buys      *)
(* before all other orders, buys in descending price, the others in         *)
(* ascending price; orders of the same side and price appear in no          *)
(* particular order (the map's iteration order, through an unstable sort).  *)
(***************************************************************************)
C14_SnapshotSideThenPrice ==
    op.name = "print_snapshot" =>
        /\ SideThenPrice(ret.rows)
        /\ Len(ret.rows) = size
        /\ {ret.rows[k].id : k \in DOMAIN ret.rows} = DOMAIN orders_
        /\ \A k \in DOMAIN ret.rows : ret.rows[k] = Row(orders_[ret.rows[k].id])

\* two orders of one side and price, listed with the later submit first
C14_Witness ==
    /\ op.name = "print_snapshot"
    /\ Len(ret.rows) = 2
    /\ ret.rows[1].side = ret.rows[2].side
    /\ ret.rows[1].price = ret.rows[2].price
    /\ ArrivalPos(ret.rows[1].id) > ArrivalPos(ret.rows[2].id)

(***************************************************************************)
(* C16. As documented: every live order's side is Buy (0) or Sell (1).      *)
(***************************************************************************)
C16_SideIsBuyOrSell ==
    \A i \in DOMAIN orders_ : orders_[i].side \in {0, 1}

(***************************************************************************)
(* C19. As documented: the book is never crossed at rest: every resting Buy *)
(* price is strictly lower than every resting Sell price.                   *)
(***************************************************************************)
C19_NeverCrossed ==
    \A b \in DOMAIN orders_ : \A a \in DOMAIN orders_ :
        (is_buy(orders_[b]) /\ is_sell(orders_[a])) =>
            orders_[b].price < orders_[a].price

(***************************************************************************)
(* C19 on the code: the book may be crossed at rest. Every accepted submit  *)
(* rests whole at its own price whatever the opposite side holds: the       *)
(* resting orders are exactly the orders submitted and not yet cancelled    *)
(* or cleared, with the price, quantity and side they were submitted with.  *)
(***************************************************************************)
C19_EverySubmitRestsWhole ==
    /\ DOMAIN orders_ = LiveIds
    /\ Len(created) = size
    /\ \A k \in DOMAIN created : orders_[created[k].id] = created[k]

\* a crossed book: a Buy resting at or above a resting Sell
C19_Witness ==
    \E b \in DOMAIN orders_ : \E a \in DOMAIN orders_ :
        /\ is_buy(orders_[b]) /\ is_sell(orders_[a])
        /\ orders_[b].price > orders_[a].price
        /\ orders_[a].price > 0



(***************************************************************************)
(* What the specification calls a well-formed line: exactly four fields,    *)
(* each of them a number and nothing else, the side 0 or 1.                 *)
(***************************************************************************)
RECURSIVE SplitFields(_)
SplitFields(line) ==
    IF \A k \in DOMAIN line : line[k] # ","
    THEN <<line>>
    ELSE LET c == CHOOSE k \in DOMAIN line :
                     line[k] = "," /\ \A j \in 1..(k - 1) : line[j] # ","
         IN <<SubSeq(line, 1, c - 1)>>
            \o SplitFields(SubSeq(line, c + 1, Len(line)))
Numeric(token) == token # <<>> /\ \A k \in DOMAIN token : token[k] \in Digits
WellFormed(line) ==
    LET f == SplitFields(line)
    IN /\ Len(f) = 4
       /\ \A k \in 1..4 : Numeric(f[k])
       /\ ToNumber(f[4]) \in {0, 1}
RecordOf(line) ==
    LET f == SplitFields(line)
    IN Order(ToNumber(f[1]), ToNumber(f[2]), ToNumber(f[3]), ToNumber(f[4]))

\* C12: load_from_csv skips every malformed line (wrong field count, a
\* non-numeric field, side out of range) and goes on with the next lines; a
\* line whose id is live is not loaded either; the returned count is the
\* increase of size() across the call. So every order the call adds is the
\* record of a well-formed line of the file, orders already live are kept,
\* and every well-formed later line ends with its id live.
C12_MalformedLinesSkipped ==
    [][op'.name = "load_from_csv" /\ is_open(op'.file) =>
            LET lines == LinesOf(op'.file) IN
            /\ ~ret'.threw
            /\ ret'.loaded_count = size' - size
            /\ \A i \in DOMAIN orders_ :
                  i \in DOMAIN orders_' /\ orders_'[i] = orders_[i]
            /\ \A i \in DOMAIN orders_' \ DOMAIN orders_ :
                  \E k \in DOMAIN lines :
                      WellFormed(lines[k]) /\ RecordOf(lines[k]) = orders_'[i]
            /\ \A k \in 2..Len(lines) :
                  WellFormed(lines[k]) => RecordOf(lines[k]).id \in DOMAIN orders_']_vars

\* the id field of a line: what precedes its first comma
IdField(line) == getline(line, 1).token

\* the orders a load added come from the lines from index `from` on
AddedFromLines(lines, from) ==
    \A i \in DOMAIN orders_' \ DOMAIN orders_ :
        \E k \in from..Len(lines) : parse_csv_line(lines[k]) = ptr_to(orders_'[i])

\* every line from the second on is handed to the parser: if it parses, its
\* id is live after the load
LaterLinesAreData(lines) ==
    \A k \in 2..Len(lines) :
        \A order \in parse_csv_line(lines[k]) : order.id \in DOMAIN orders_'

\* C13 (as stated): the first line is skipped as a header only if its id
\* field is non-numeric; a first line that is a valid four-field record is
\* always loaded; every later line is data.
C13_HeaderOnlyIfIdNonNumeric ==
    [][op'.name = "load_from_csv" /\ is_open(op'.file) =>
            LET lines == LinesOf(op'.file) IN
            /\ ret'.header => lines # <<>> /\ ~Numeric(IdField(lines[1]))
            /\ lines # <<>> /\ WellFormed(lines[1]) =>
                  ~ret'.header /\ RecordOf(lines[1]).id \in DOMAIN orders_'
            /\ LaterLinesAreData(lines)]_vars

\* C13 (amended): the first line is skipped as a header exactly when it
\* contains "id" or "ID" anywhere, whatever its id field is, and a skipped
\* line adds nothing; a first line that is a valid four-field record of
\* digits is never skipped and its id is live after the load; every later
\* line is data.
C13_HeaderIffContainsId ==
    [][op'.name = "load_from_csv" /\ is_open(op'.file) =>
            LET lines == LinesOf(op'.file) IN
            /\ ret'.header <=>
                  /\ lines # <<>>
                  /\ \/ Contains(lines[1], <<"i", "d">>)
                     \/ Contains(lines[1], <<"I", "D">>)
            /\ ret'.header => AddedFromLines(lines, 2)
            /\ lines # <<>> /\ WellFormed(lines[1]) =>
                  ~ret'.header /\ RecordOf(lines[1]).id \in DOMAIN orders_'
            /\ LaterLinesAreData(lines)]_vars
\* a load that skipped a header line and added the lines after it
C13_Witness ==
    /\ op.name = "load_from_csv"
    /\ ~ret.threw
    /\ ret.header
    /\ Numeric(IdField(op.file.lines[1]))
    /\ ret.loaded_count >= 1

\* C17: a file that cannot be opened makes load_from_csv and
\* print_snapshot_to_file throw to the caller and change nothing: the live
\* orders, the statistics and the snapshot cache are as before, so every
\* later operation acts as if the call had not been made. A file that opens
\* does not throw.
C17_UnopenableFileChangesNothing ==
    [][op'.name \in {"load_from_csv", "print_snapshot_to_file"} =>
       IF op'.file.openable
       THEN ~ret'.threw
       ELSE /\ ret'.threw
            /\ UNCHANGED <<orders_, order_ptrs_, snapshot_dirty_,
                           total_orders_added_, total_orders_cancelled_>>]_vars
\* a load that threw on a manager holding orders, with a dirty cache
C17_Witness ==
    /\ op = CallOnFile("load_from_csv", NoFile)
    /\ ret.threw
    /\ size >= 1
    /\ snapshot_dirty_
    /\ total_orders_cancelled_ >= 1

\* C20: a snapshot is never stale. Whenever snapshot_dirty_ is false the
\* cached order_ptrs_ points to exactly the live orders, each once, and to no
\* removed order; and what print_snapshot (to a stream or to a file that
\* opened) has just written is the live orders, each once, under a
\* "Total Active Orders" equal to size().
ListsLiveOrders(written) ==
    /\ written.total = size
    /\ Len(written.rows) = size
    /\ {written.rows[k] : k \in DOMAIN written.rows}
         = {Row(orders_[i]) : i \in DOMAIN orders_}
C20_SnapshotNeverStale ==
    /\ ~snapshot_dirty_ =>
          /\ \A k \in DOMAIN order_ptrs_ : ~order_ptrs_[k].dangling
          /\ {order_ptrs_[k].id : k \in DOMAIN order_ptrs_} = DOMAIN orders_
          /\ Len(order_ptrs_) = size
    /\ op.name = "print_snapshot" => ListsLiveOrders(ret)
    /\ op.name = "print_snapshot_to_file" => (~ret.threw => ListsLiveOrders(ret))
\* a snapshot taken after orders were loaded and one of them cancelled
C20_Witness ==
    /\ op.name = "print_snapshot"
    /\ total_orders_cancelled_ >= 1
    /\ size >= 1
    /\ ret.total = size

\* C15: two print_snapshot calls that interleave while no mutating operation
\* is in progress each list exactly the live orders, and leave the manager
\* sound: a thread that has finished writing wrote the live orders, each
\* once, under a total equal to size(), and once no thread is inside the
\* call a cache marked clean holds exactly the live orders.
C15_ConcurrentSnapshotsListLive ==
    /\ \A t \in Threads :
          threads[t].pc = "done" => ListsLiveOrders(threads[t].out)
    /\ AllIdle /\ ~snapshot_dirty_ =>
          /\ Len(order_ptrs_) = size
          /\ {order_ptrs_[k].id : k \in DOMAIN order_ptrs_} = DOMAIN orders_

\* the command lines that are usage errors: no command, an unknown command,
\* or load, generate, benchmark without their argument
UsageError(argv) ==
    \/ argv = <<>>
    \/ argv[1] \notin Commands
    \/ argv[1] \in {"load", "generate", "benchmark"} /\ Len(argv) < 2
\* the command lines whose command raises an exception: a file that cannot
\* be opened, a count that is not a number
Faults(argv) ==
    /\ Len(argv) >= 2
    /\ \/ argv[1] \in {"load", "snapshot"} /\ ~argv[2].openable
       \/ argv[1] \in {"generate", "benchmark"} /\ ~Numeric(DigitPrefix(argv[2]))

\* C18 (as stated): the process exits with 1 on every usage error (no
\* command, unknown command, missing argument) and on every caught fault,
\* and with 0 on success.
C18_ExitCodes ==
    proc.pc = "exited" =>
        /\ proc.caught <=> Faults(proc.argv)
        /\ proc.exit_code =
              IF UsageError(proc.argv) \/ Faults(proc.argv) THEN 1 ELSE 0

\* C18 (amended): run without a command the process prints the usage and
\* exits with 0; it exits with 1 on an unknown command, on a command missing
\* its required argument and on every caught fault, and with 0 on success.
C18_ExitCodesNoCommandZero ==
    proc.pc = "exited" =>
        /\ proc.caught <=> Faults(proc.argv)
        /\ proc.exit_code =
              IF proc.argv = <<>> THEN 0
              ELSE IF UsageError(proc.argv) \/ Faults(proc.argv) THEN 1
              ELSE 0
\* the process has exited with 1 after main caught the exception of a load
C18_Witness ==
    /\ proc.pc = "exited"
    /\ proc.argv # <<>>
    /\ proc.argv[1] = "load"
    /\ proc.caught
    /\ proc.exit_code = 1

\* C21: the statistics agree with the book. Before and after every step the
\* number of active orders is total_orders_added_ - total_orders_cancelled_;
\* an add rejected as a duplicate and a cancel of an id that is not live
\* change neither counter; clear sets both counters to 0 and empties the
\* order set; print_stats reports these three numbers.
C21_StatsAgreeWithBook ==
    [][/\ size = total_orders_added_ - total_orders_cancelled_
       /\ size' = total_orders_added_' - total_orders_cancelled_'
       /\ op'.name \in {"add_order", "cancel_order"} /\ ret' = FALSE =>
             UNCHANGED <<orders_, total_orders_added_, total_orders_cancelled_>>
       /\ op'.name = "clear" =>
             /\ total_orders_added_' = 0
             /\ total_orders_cancelled_' = 0
             /\ orders_' = EmptyMap
       /\ op'.name = "print_stats" =>
             /\ ret'.active = size'
             /\ ret'.added = total_orders_added_'
             /\ ret'.cancelled = total_orders_cancelled_'
             /\ ret'.active = ret'.added - ret'.cancelled]_vars
\* statistics printed with an order live after another was cancelled
C21_Witness ==
    /\ op.name = "print_stats"
    /\ ret.active >= 1
    /\ ret.cancelled >= 1
    /\ ret.added = ret.active + ret.cancelled

\* C22: read operations do not mutate the book. print_snapshot, print_stats
\* and get_order leave the live orders, every order's fields and both
\* counters as they were, so size() and empty() answer the same before and
\* after; print_stats and get_order leave the snapshot cache alone as well,
\* which only print_snapshot may refresh.
C22_ReadsDoNotMutate ==
    [][op'.name \in {"print_snapshot", "print_stats", "get_order"} =>
          /\ UNCHANGED <<orders_, total_orders_added_, total_orders_cancelled_>>
          /\ size' = size
          /\ empty' = empty
          /\ op'.name # "print_snapshot" =>
                UNCHANGED <<order_ptrs_, snapshot_dirty_>>]_vars
\* a lookup of an id that is not live, on a book holding the other order
C22_Witness ==
    /\ op.name = "get_order"
    /\ ret = nullptr
    /\ size = 1
    /\ total_orders_cancelled_ >= 1


=============================================================================
